---- MODULE Spec2Model ----
(***************************************************************************)
(* GraphWeaver: the query-generation pipeline of main.py                   *)
(* (generate_graphql_with_inference), the Neo4j schema store and importer  *)
(* of utils/neo4j_store.py, and the response parsing of                    *)
(* utils/llm_orchestration.py and utils/validation.py.                     *)
(*                                                                         *)
(* Texts (model responses, queries, schema field types) are sequences of   *)
(* string tokens; the regular expressions of the source are evaluated on   *)
(* those sequences.  Python's None is the value None below, a dict is a    *)
(* function (a record when its keys are fixed).                            *)
(***************************************************************************)
EXTENDS Integers, Sequences, FiniteSets, Bags, TLC

VARIABLES
    env,            \* the settings os.getenv finds with a non-empty value
    store,          \* the Neo4j database: bags of nodes and relationships
    doc,            \* ./schema/schema.graphql
    schemaJson,     \* ./schema/schema.json
    max_hops,       \* argument of generate_graphql_with_inference
    max_retries,    \* argument of generate_graphql_with_inference
    pc,             \* position of the request in generate_graphql_with_inference
    exc,            \* the exception that left the entry point, or None
    result,         \* the returned dict, or None
    schema_types,   \* main.py local
    inferred,       \* main.py local: the type-inference answer
    src_type,       \* main.py local
    dst_type,       \* main.py local
    paths,          \* main.py local
    prompt,         \* the last prompt handed to llm.predict
    response,       \* main.py local
    query,          \* main.py local
    variables,      \* main.py local
    errors,         \* main.py local
    retries,        \* main.py local
    invalids,       \* main.py local
    allowed_fields_map, \* main.py local
    calls,          \* how often each collaborator was called by this request
    validated,      \* the query text handed to the last validate_query call
    imp,            \* the importer of the import-only specification
    importers,      \* the requests of the concurrent-import specification
    shown           \* app.py: what run_inference returned to the interface

vars == << env, store, doc, schemaJson, max_hops, max_retries, pc, exc, result,
           schema_types, inferred, src_type, dst_type, paths, prompt, response,
           query, variables, errors, retries, invalids, allowed_fields_map,
           calls, validated, imp, importers, shown >>

-----------------------------------------------------------------------------
(* Bounds of the model. *)

\* max_retries ranges over 0..MaxRetriesBound
MaxRetriesBound == 2
\* max_hops ranges over 1..MaxHopsBound
MaxHopsBound == 2
\* the import-only specification runs build_graph ImportRuns + 1 times
ImportRuns == 1

\* the longest model answer given to extract_query_and_vars alone, in pieces
MaxSegments == 3

-----------------------------------------------------------------------------
(* Python values. *)

None == [isNone |-> TRUE]

Some(x) == [isNone |-> FALSE, val |-> x]

\* Python truthiness of an optional text: None and "" are falsy
Truthy(v) == (~v.isNone) /\ v.val # << >>

\* the empty dict
EmptyDict == [k \in {} |-> ""]

Min(S) == CHOOSE x \in S : \A y \in S : x <= y

Max(S) == CHOOSE x \in S : \A y \in S : x >= y

-----------------------------------------------------------------------------
(* The schema definition document and graphql's type_map. *)

\* str(field.type).replace("!", "").replace("[", "").replace("]", "")
UnwrapChars == {"!", "[", "]"}

IsWrapper(tok) == tok \in UnwrapChars

FieldTypeName(fieldType) ==
    LET kept == SelectSeq(fieldType, LAMBDA tok : ~IsWrapper(tok))
    IN  IF Len(kept) = 1 THEN kept[1] ELSE "?"

FieldDef(n, t) == [name |-> n, type |-> t]

ObjectType(n, fs) == [name |-> n, hasFields |-> TRUE, fields |-> fs]

LeafType(n) == [name |-> n, hasFields |-> FALSE, fields |-> << >>]

\* a schema with a chain Workbook -> User -> Site, two parallel relations
\* Workbook -> User, and an introspection type
DocChain ==
    [readable |-> TRUE,
     type_map |-> <<
        ObjectType("Workbook", << FieldDef("name", <<"String">>),
                                  FieldDef("owner", <<"User", "!">>),
                                  FieldDef("editor", <<"User">>) >>),
        ObjectType("User", << FieldDef("sites", <<"[", "Site", "!", "]", "!">>) >>),
        ObjectType("Site", << FieldDef("name", <<"String">>) >>),
        LeafType("String"),
        ObjectType("__Schema", << FieldDef("types", <<"[", "__Type", "!", "]">>) >>),
        LeafType("__Type") >>]

\* two object types with a cycle between them
DocCycle ==
    [readable |-> TRUE,
     type_map |-> <<
        ObjectType("Workbook", << FieldDef("owner", <<"User">>) >>),
        LeafType("String"),
        ObjectType("User", << FieldDef("workbooks", <<"[", "Workbook", "]">>),
                              FieldDef("name", <<"String", "!">>) >>) >>]

\* a document that declares no type with fields: the import writes nothing
DocScalars ==
    [readable |-> TRUE,
     type_map |-> << LeafType("String"), LeafType("Role") >>]

\* a missing file, or a document build_schema rejects
DocBroken == [readable |-> FALSE, type_map |-> << >>]

Docs == {DocChain, DocCycle, DocScalars, DocBroken}

TypeMapNames(d) == {d.type_map[i].name : i \in DOMAIN d.type_map}

-----------------------------------------------------------------------------
(* The Neo4j store.  Nodes and relationships are bags over their           *)
(* properties: a MERGE creates the pattern only when no copy matches.      *)

EmptyStore ==
    [Type |-> EmptyBag, Field |-> EmptyBag,
     HAS_FIELD |-> EmptyBag, HAS_RELATION |-> EmptyBag]

\* fault: a CREATE where the source has a MERGE
MergeAsCreate(bag, key) == bag (+) SetToBag({key})

Merge(bag, key) == IF BagIn(key, bag) THEN bag ELSE bag (+) SetToBag({key})

TypeStmt(n) == [op |-> "type", tname |-> n, fname |-> "", dst |-> ""]

FieldStmt(f, t) == [op |-> "field", tname |-> t, fname |-> f, dst |-> ""]

RelationStmt(s, d, f) == [op |-> "relation", tname |-> s, fname |-> f, dst |-> d]

\* one graph.query call of build_graph
ApplyStmt(st, stmt) ==
    CASE stmt.op = "type" ->
            [st EXCEPT !.Type = Merge(@, stmt.tname)]
      [] stmt.op = "field" ->
            [st EXCEPT !.Field = Merge(@, <<stmt.fname, stmt.tname>>),
                       !.Type = Merge(@, stmt.tname),
                       !.HAS_FIELD = Merge(@, <<stmt.tname, stmt.fname>>)]
      [] stmt.op = "relation" ->
            [st EXCEPT !.Type = Merge(Merge(@, stmt.tname), stmt.dst),
                       !.HAS_RELATION = Merge(@, <<stmt.tname, stmt.dst, stmt.fname>>)]

\* the statements of the inner loop for the fields of one type
RECURSIVE FieldStmts(_, _, _)
FieldStmts(d, tname, fs) ==
    IF fs = << >> THEN << >>
    ELSE LET f == Head(fs)
             field_type == FieldTypeName(f.type)
         IN  << FieldStmt(f.name, tname) >>
             \o (IF field_type \in TypeMapNames(d)
                 THEN << RelationStmt(tname, field_type, f.name) >>
                 ELSE << >>)
             \o FieldStmts(d, tname, Tail(fs))

StartsWithDunder(n) == n \in {"__Schema", "__Type"}

SkipsType(t) == StartsWithDunder(t.name) \/ ~t.hasFields

\* the statements build_graph issues, in order, for the types from index i on
RECURSIVE TypeStmts(_, _)
TypeStmts(d, i) ==
    IF i > Len(d.type_map) THEN << >>
    ELSE LET t == d.type_map[i]
         IN  (IF SkipsType(t) THEN << >>
              ELSE << TypeStmt(t.name) >> \o FieldStmts(d, t.name, t.fields))
             \o TypeStmts(d, i + 1)

Statements(d) == TypeStmts(d, 1)

RECURSIVE ApplyAll(_, _)
ApplyAll(st, stmts) ==
    IF stmts = << >> THEN st ELSE ApplyAll(ApplyStmt(st, Head(stmts)), Tail(stmts))

\* MATCH (n) RETURN count(n)
NodeCount(st) == BagCardinality(st.Type) + BagCardinality(st.Field)

\* fault: a store that is always taken to be empty
NeverBuilt(st) == FALSE

is_graph_built(st) == NodeCount(st) > 0

\* the store after build_graph ran to its end on a readable document
BuildGraphStore(st, d) == ApplyAll(st, Statements(d))

NoDuplicates(st) ==
    /\ \A k \in BagToSet(st.Type) : CopiesIn(k, st.Type) = 1
    /\ \A k \in BagToSet(st.Field) : CopiesIn(k, st.Field) = 1
    /\ \A k \in BagToSet(st.HAS_FIELD) : CopiesIn(k, st.HAS_FIELD) = 1
    /\ \A k \in BagToSet(st.HAS_RELATION) : CopiesIn(k, st.HAS_RELATION) = 1

-----------------------------------------------------------------------------
(* Texts as token sequences. *)

\* tokens that are white space to \s, strip() and the JSON parser
WhiteSpace == {" ", "\n\n"}

IsWs(tok) == tok \in WhiteSpace

\* "[fence]" is a run of three backticks; the tokens in which the three
\* backticks of a closing fence are found
Backticks == {"[fence]graphql", "[fence]json", "[fence]"}

RECURSIVE LStrip(_)
LStrip(s) == IF s # << >> /\ IsWs(Head(s)) THEN LStrip(Tail(s)) ELSE s

RECURSIVE RStrip(_)
RStrip(s) ==
    IF s # << >> /\ IsWs(s[Len(s)]) THEN RStrip(SubSeq(s, 1, Len(s) - 1)) ELSE s

\* str.strip()
Strip(s) == RStrip(LStrip(s))

\* the index of the first token after position i that \s* does not consume
\* (Len(s) + 1 when only white space follows)
SkipWs(s, i) ==
    Min({k \in (i + 1)..(Len(s) + 1) :
            /\ k = Len(s) + 1 \/ ~IsWs(s[k])
            /\ \A m \in (i + 1)..(k - 1) : IsWs(s[m])})

-----------------------------------------------------------------------------
(* JSON.  A member of an object is one token, "key=value". *)

JsonMembers ==
    { [tok |-> "src_type=Workbook", key |-> "src_type", val |-> "Workbook"],
      [tok |-> "src_type=Site",     key |-> "src_type", val |-> "Site"],
      [tok |-> "src_type=Ghost",    key |-> "src_type", val |-> "Ghost"],
      [tok |-> "dst_type=User",     key |-> "dst_type", val |-> "User"],
      [tok |-> "dst_type=Site",     key |-> "dst_type", val |-> "Site"],
      [tok |-> "dst_type=Workbook", key |-> "dst_type", val |-> "Workbook"],
      [tok |-> "first=5",           key |-> "first",    val |-> "5"],
      [tok |-> "name=Jane",         key |-> "name",     val |-> "Jane"] }

MemberToks == {m.tok : m \in JsonMembers}

MemberOf(tok) == CHOOSE m \in JsonMembers : m.tok = tok

\* json.loads: [ok |-> FALSE] stands for the JSONDecodeError it raises
JsonLoads(text) ==
    LET t == SelectSeq(text, LAMBDA tok : ~IsWs(tok))
        n == Len(t)
    IN  IF /\ n >= 2
           /\ t[1] = "{"
           /\ t[n] = "}"
           /\ \A i \in 2..(n - 1) : t[i] \in MemberToks
        THEN LET keys == {MemberOf(t[i]).key : i \in 2..(n - 1)}
                 lastOf(k) == Max({i \in 2..(n - 1) : MemberOf(t[i]).key = k})
             IN  [ok |-> TRUE, val |-> [k \in keys |-> MemberOf(t[lastOf(k)]).val]]
        ELSE [ok |-> FALSE, val |-> EmptyDict]

\* dict.get(key)
DictGet(d, key) == IF key \in DOMAIN d THEN Some(d[key]) ELSE None

-----------------------------------------------------------------------------
(* utils/llm_orchestration.py *)

\* re.search(r'\{.*\}', llm_response, re.DOTALL): from the first "{" to the
\* last "}" after it
BraceSpan(text) ==
    LET opens == {i \in DOMAIN text : text[i] = "{"}
        closes == {j \in DOMAIN text : text[j] = "}"}
    IN  IF opens # {} /\ closes # {} /\ Max(closes) > Min(opens)
        THEN Some(SubSeq(text, Min(opens), Max(closes)))
        ELSE None

\* parse_types: raised is the JSONDecodeError of json.loads
parse_types(llm_response) ==
    LET match == BraceSpan(llm_response)
    IN  IF match.isNone
        THEN [raised |-> FALSE, src |-> None, dst |-> None]
        ELSE LET data == JsonLoads(match.val)
             IN  IF ~data.ok
                 THEN [raised |-> TRUE, src |-> None, dst |-> None]
                 ELSE [raised |-> FALSE,
                       src |-> DictGet(data.val, "src_type"),
                       dst |-> DictGet(data.val, "dst_type")]

\* re.search(r"[fence]graphql(.*?)[fence]", response, re.S)
FencedQuery(text) ==
    LET I == {i \in DOMAIN text :
                 /\ text[i] = "[fence]graphql"
                 /\ \E j \in DOMAIN text : j > i /\ text[j] \in Backticks}
    IN  IF I = {} THEN None
        ELSE LET i == Min(I)
                 j == Min({k \in DOMAIN text : k > i /\ text[k] \in Backticks})
             IN  Some(SubSeq(text, i + 1, j - 1))

\* re.search(r"GraphQL Query:\s*(.*?)\n\nVariables:", response, re.S)
LabeledQuery(text) ==
    LET ends(i) == {j \in DOMAIN text :
                       /\ j > i
                       /\ text[j] = "\n\n"
                       /\ j + 1 \in DOMAIN text
                       /\ text[j + 1] = "Variables:"}
        I == {i \in DOMAIN text : text[i] = "GraphQL Query:" /\ ends(i) # {}}
    IN  IF I = {} THEN None
        ELSE LET i == Min(I)
             IN  Some(SubSeq(text, i + 1, Min(ends(i)) - 1))

\* re.search(r"Variables:\s*[fence]json(.*?)[fence]", response, re.S)
FencedVars(text) ==
    LET closes(k) == {j \in DOMAIN text : j > k /\ text[j] \in Backticks}
        I == {i \in DOMAIN text :
                 /\ text[i] = "Variables:"
                 /\ SkipWs(text, i) \in DOMAIN text
                 /\ text[SkipWs(text, i)] = "[fence]json"
                 /\ closes(SkipWs(text, i)) # {}}
    IN  IF I = {} THEN None
        ELSE LET k == SkipWs(text, Min(I))
             IN  Some(SubSeq(text, k + 1, Min(closes(k)) - 1))

\* re.search(r"Variables:\s*(\{.*\})", response, re.S)
BareVars(text) ==
    LET closes(k) == {j \in DOMAIN text : j > k /\ text[j] = "}"}
        I == {i \in DOMAIN text :
                 /\ text[i] = "Variables:"
                 /\ SkipWs(text, i) \in DOMAIN text
                 /\ text[SkipWs(text, i)] = "{"
                 /\ closes(SkipWs(text, i)) # {}}
    IN  IF I = {} THEN None
        ELSE LET k == SkipWs(text, Min(I))
             IN  Some(SubSeq(text, k, Max(closes(k))))

\* json.loads(group.strip()) inside try/except: any failure gives {}
VarsOrEmpty(match) ==
    IF match.isNone THEN EmptyDict
    ELSE LET data == JsonLoads(Strip(match.val))
         IN  IF data.ok THEN data.val ELSE EmptyDict

\* fault: the labeled section looked for before the fenced block
ExtractLabeledFirst(text) ==
    LET fenced == FencedQuery(text)
        labeled == LabeledQuery(text)
        q == IF ~labeled.isNone THEN Some(Strip(labeled.val))
             ELSE IF ~fenced.isNone THEN Some(Strip(fenced.val))
             ELSE None
        match_vars == FencedVars(text)
        v == IF ~match_vars.isNone THEN VarsOrEmpty(match_vars)
             ELSE VarsOrEmpty(BareVars(text))
    IN  [query |-> q, variables |-> v]

extract_query_and_vars(text) ==
    LET fenced == FencedQuery(text)
        labeled == LabeledQuery(text)
        q == IF ~fenced.isNone THEN Some(Strip(fenced.val))
             ELSE IF ~labeled.isNone THEN Some(Strip(labeled.val))
             ELSE None
        match_vars == FencedVars(text)
        v == IF ~match_vars.isNone THEN VarsOrEmpty(match_vars)
             ELSE VarsOrEmpty(BareVars(text))
    IN  [query |-> q, variables |-> v]

-----------------------------------------------------------------------------
(* utils/neo4j_store.py: the canonical schema and validate_query.          *)
(* A query text is a sequence of field selections, "Type.field"; a token   *)
(* that is no selection is a syntax error.                                 *)

Selections ==
    { [tok |-> "Workbook.name",   type |-> "Workbook", field |-> "name",  badArg |-> FALSE],
      [tok |-> "Workbook.owner",  type |-> "Workbook", field |-> "owner", badArg |-> FALSE],
      [tok |-> "User.sites",      type |-> "User",     field |-> "sites", badArg |-> FALSE],
      [tok |-> "Site.owner",      type |-> "Site",     field |-> "owner", badArg |-> FALSE],
      [tok |-> "Ghost.id",        type |-> "Ghost",    field |-> "id",    badArg |-> FALSE],
      [tok |-> "Workbook.owner(x)", type |-> "Workbook", field |-> "owner", badArg |-> TRUE] }

SelectionToks == {x.tok : x \in Selections}

SelectionOf(tok) == CHOOSE x \in Selections : x.tok = tok

\* the fields the introspection result of a document declares
RECURSIVE DeclaredFields(_, _)
DeclaredFields(d, i) ==
    IF i > Len(d.type_map) THEN {}
    ELSE LET t == d.type_map[i]
         IN  {<<t.name, t.fields[k].name>> : k \in DOMAIN t.fields}
             \cup DeclaredFields(d, i + 1)

JsonOf(d) == [loadable |-> TRUE, fields |-> DeclaredFields(d, 1)]

\* a missing schema.json, or one json.load or build_client_schema rejects
JsonBroken == [loadable |-> FALSE, fields |-> {}]

SchemaJsons == {JsonOf(DocChain), JsonOf(DocCycle), JsonBroken}

\* str(err) of a GraphQLError: the message, then the location
CannotQueryMsg(f, t) ==
    << "Cannot query field '", f, "' on type '", t, "'", ".", "GraphQL request:1:1" >>

UnknownArgumentMsg(f, t) ==
    << "Unknown argument 'x' on field '", t, ".", f, "'", ".", "GraphQL request:1:1" >>

ParseErrorMsg == << "Parsing/validation error: ", "Syntax Error" >>

\* validate(schema, ast): one error per violation, in document order
RECURSIVE SemanticErrors(_, _)
SemanticErrors(q, sj) ==
    IF q = << >> THEN << >>
    ELSE LET x == SelectionOf(Head(q))
         IN  (IF <<x.type, x.field>> \notin sj.fields
                  THEN << CannotQueryMsg(x.field, x.type) >>
              ELSE IF x.badArg
                  THEN << UnknownArgumentMsg(x.field, x.type) >>
              ELSE << >>)
             \o SemanticErrors(Tail(q), sj)

\* parse(query) raises on None, on an empty document and on a token that is
\* no selection
SyntaxOk(q) ==
    /\ ~q.isNone
    /\ q.val # << >>
    /\ \A i \in DOMAIN q.val : q.val[i] \in SelectionToks

\* validate_query: raised is the exception of open, json.load or
\* build_client_schema, which are outside the try
validate_query(q, sj) ==
    IF ~sj.loadable THEN [raised |-> TRUE, errors |-> << >>]
    ELSE IF ~SyntaxOk(q) THEN [raised |-> FALSE, errors |-> << ParseErrorMsg >>]
    ELSE [raised |-> FALSE, errors |-> SemanticErrors(q.val, sj)]

-----------------------------------------------------------------------------
(* utils/validation.py *)

\* re.search(r"Cannot query field '([^']+)' on type '([^']+)'", e)
CannotQueryMatch(e) ==
    LET I == {i \in DOMAIN e :
                 /\ i + 4 \in DOMAIN e
                 /\ e[i] = "Cannot query field '"
                 /\ e[i + 2] = "' on type '"
                 /\ e[i + 4] = "'"}
    IN  IF I = {} THEN None
        ELSE Some([field |-> e[Min(I) + 1], type |-> e[Min(I) + 3]])

RECURSIVE extract_invalids(_)
extract_invalids(errs) ==
    IF errs = << >> THEN << >>
    ELSE LET m == CannotQueryMatch(Head(errs))
         IN  (IF m.isNone THEN << >> ELSE << m.val >>)
             \o extract_invalids(Tail(errs))

-----------------------------------------------------------------------------
(* utils/neo4j_store.py: the read queries. *)

\* f"{src}" in the Cypher text of get_schema_paths and in the error message
Interpolate(v) == IF v.isNone THEN "None" ELSE v.val

get_schema_types(st) == BagToSet(st.Type)

Relations(st) == BagToSet(st.HAS_RELATION)

\* the directed walks of exactly k HAS_RELATION edges that start at src
RECURSIVE Walks(_, _, _)
Walks(st, src, k) ==
    IF k = 0 THEN {[nodes |-> << src >>, fields |-> << >>]}
    ELSE {[nodes |-> Append(w.nodes, r[2]), fields |-> Append(w.fields, r[3])] :
            <<w, r>> \in {x \in Walks(st, src, k - 1) \X Relations(st) :
                            x[2][1] = x[1].nodes[Len(x[1].nodes)]}}

\* fault: a path query that does not pin the end node
PathsAnyEnd(st, src, dst, k) == Walks(st, src, k)

PathsOfLength(st, src, dst, k) ==
    {w \in Walks(st, src, k) : w.nodes[Len(w.nodes)] = dst}

\* the outcomes of the shortestPath query: with equal start and end node the
\* database raises or returns no path, by its configuration; otherwise one
\* row holding a shortest path of at most max_hops relations, or no row
get_schema_paths(st, src, dst, hops) ==
    LET s == Interpolate(src)
        d == Interpolate(dst)
        lens == {k \in 1..hops : PathsOfLength(st, s, d, k) # {}}
    IN  IF ~(BagIn(s, st.Type) /\ BagIn(d, st.Type))
            THEN {[raised |-> FALSE, rows |-> << >>]}
        ELSE IF s = d
            THEN {[raised |-> TRUE, rows |-> << >>], [raised |-> FALSE, rows |-> << >>]}
        ELSE IF lens = {}
            THEN {[raised |-> FALSE, rows |-> << >>]}
        ELSE {[raised |-> FALSE, rows |-> << p >>] : p \in PathsOfLength(st, s, d, Min(lens))}

\* the rows of get_schema_snippet: a field, and the target of a relation the
\* field stands for (None: the OPTIONAL MATCH found none)
get_schema_snippet(st, type_name) ==
    LET t == Interpolate(type_name)
        fs == {e[2] : e \in {x \in BagToSet(st.HAS_FIELD) : x[1] = t}}
        dsts(f) == {r[2] : r \in {x \in Relations(st) : x[1] = t /\ x[3] = f}}
    IN  [type |-> t,
         rows |-> UNION {IF dsts(f) = {} THEN {[field |-> f, dstType |-> None]}
                         ELSE {[field |-> f, dstType |-> Some(x)] : x \in dsts(f)} :
                         f \in fs}]

\* fault: the allowed fields not restricted to the type asked for
AllowedFieldsOfAnyType(st, t) == {e[2] : e \in BagToSet(st.HAS_FIELD)}

\* MATCH (t:Type {name:$t})-[:HAS_FIELD]->(f:Field) RETURN f.name
AllowedFields(st, t) == {e[2] : e \in {x \in BagToSet(st.HAS_FIELD) : x[1] = t}}

-----------------------------------------------------------------------------
(* Prompts. *)

InferencePrompt(types) == [kind |-> "infer_types", schema_types |-> types]

GenerationPrompt(ps, snippet) ==
    [kind |-> "generation", schema_path |-> ps, schema_snippets |-> snippet]

\* build_correction_prompt: one feedback block per invalid
build_correction_prompt(original_query, invs, allowed) ==
    [kind |-> "correction",
     original_query |-> original_query,
     blocks |-> [i \in DOMAIN invs |->
                    [field |-> invs[i].field, type |-> invs[i].type,
                     allowed |-> allowed[invs[i].type]]]]

-----------------------------------------------------------------------------
(* Configuration: check_env_vars and check_llm_env_vars. *)

Neo4jVars == {"NEO4J_URI", "NEO4J_USER", "NEO4J_PASSWORD"}

LlmVars == {"LLM_API_KEY", "LLM_BASE_URL", "LLM_MODEL"}

\* the default required_vars of check_env_vars
RequiredVars == Neo4jVars \cup LlmVars

\* fault: a check that finds nothing missing
NoneMissing(e, required_vars) == {}

\* missing = [var for var in required_vars if not os.getenv(var)]
MissingVars(e, required_vars) == {var \in required_vars : var \notin e}

-----------------------------------------------------------------------------
(* What the language model may answer. *)

InferResponses ==
    { << "[fence]json", "{", "src_type=Workbook", "dst_type=Site", "}", "[fence]" >>,
      << "{", "src_type=Workbook", " ", "dst_type=User", "}" >>,
      << "{", "src_type=Site", "dst_type=Workbook", "}" >>,
      << "{", "src_type=Ghost", "dst_type=User", "}" >>,
      << "{", "src_type=Workbook", "dst_type=Workbook", "}" >>,
      << "{", "src_type=Workbook", "}" >>,
      << "{", "src_type=Workbook", "}", "or", "{", "dst_type=Site", "}" >>,
      << "I am not sure" >> }

Responses ==
    { \* the two-fence format the generation prompt asks for
      << "[fence]graphql", " ", "Workbook.name", "Workbook.owner", " ", "[fence]",
         "\n\n", "[fence]json", "{", "first=5", "}", "[fence]" >>,
      << "[fence]graphql", "Site.owner", "Workbook.owner(x)", "[fence]", "\n\n",
         "Variables:", " ", "[fence]json", "{", "first=5", "}", "[fence]" >>,
      << "[fence]graphql", "Workbook.owner(x)", "[fence]" >>,
      << "[fence]graphql", "junk", "[fence]json", "{", "name=Jane", "}", "[fence]" >>,
      << "GraphQL Query:", " ", "User.sites", "Site.owner", "\n\n", "Variables:", " ",
         "{", "first=5", "name=Jane", "}" >>,
      << "[fence]graphql", " ", "[fence]" >>,
      << "No valid path" >> }

\* parse_types and extract_query_and_vars of each answer the model can give
ParsedTypes == [r \in InferResponses |-> parse_types(r)]

Extraction == [r \in Responses |-> extract_query_and_vars(r)]

-----------------------------------------------------------------------------
(* main.py: generate_graphql_with_inference, one action per step. *)

\* calls counts the calls of each collaborator; extracted, corrected and
\* usable count the extractions that gave a query other than None (all of
\* them, those of correction responses, and those the "if not query" tests
\* let through); verdicts counts the validate_query calls that returned, and
\* settled those of them that were made on the query of a correction response
NoCalls ==
    [connect |-> 0, store |-> 0, imports |-> 0, types |-> 0, infer |-> 0,
     paths |-> 0, llm |-> 0, validate |-> 0,
     extracted |-> 0, corrected |-> 0, usable |-> 0, verdicts |-> 0,
     settled |-> 0]

ImporterIdle == [run |-> 0, i |-> 0, done |-> 0, snap |-> None]

NoImporters == [proc |-> [r \in {} |-> ""], overlapped |-> FALSE]

\* the locals of a request that has not started
LocalsInit ==
    /\ exc = None
    /\ result = None
    /\ schema_types = None
    /\ inferred = None
    /\ src_type = None
    /\ dst_type = None
    /\ paths = None
    /\ prompt = None
    /\ response = None
    /\ query = None
    /\ variables = None
    /\ errors = None
    /\ retries = 0
    /\ invalids = None
    /\ allowed_fields_map = None
    /\ calls = NoCalls
    /\ validated = None

\* the store before a request: never written, or left by an earlier import
Stores == {BuildGraphStore(EmptyStore, d) : d \in {x \in Docs : x.readable}}

Init ==
    /\ env \in SUBSET RequiredVars
    /\ doc \in Docs
    /\ store \in Stores
    /\ schemaJson \in SchemaJsons
    /\ max_hops \in 1..MaxHopsBound
    /\ max_retries \in 0..MaxRetriesBound
    /\ pc = "check_env"
    /\ imp = ImporterIdle
    /\ importers = NoImporters
    /\ shown = None
    /\ LocalsInit

inputs == << env, doc, schemaJson, max_hops, max_retries, imp, importers, shown >>

inferLocals == << schema_types, inferred, src_type, dst_type, paths >>

loopLocals == << response, query, variables, errors, retries, invalids,
                 allowed_fields_map, validated >>

Called(what, n) == [calls EXCEPT ![what] = @ + n]

\* the counters after an extraction that gave q (correction is 1 for the
\* response of a correction call, 0 for that of the generation call)
Counted(q, correction) ==
    IF q.isNone
    THEN calls
    ELSE [calls EXCEPT !.extracted = @ + 1,
                       !.corrected = @ + correction,
                       !.usable = @ + (IF Truthy(q) THEN 1 ELSE 0)]

Raise(e) == pc' = "raised" /\ exc' = Some(e)

Goto(label) == pc' = label /\ exc' = exc

\* lines 36-37
CheckEnv ==
    /\ pc = "check_env"
    /\ IF MissingVars(env, RequiredVars) # {} \/ MissingVars(env, LlmVars) # {}
       THEN Raise("ValueError")
       ELSE Goto("init_graph_driver")
    /\ UNCHANGED << inputs, store, result, inferLocals, prompt, loopLocals, calls >>

\* line 42: init_graph_driver checks its settings and connects
InitGraphDriver ==
    /\ pc = "init_graph_driver"
    /\ IF MissingVars(env, Neo4jVars) # {}
       THEN Raise("ValueError") /\ calls' = calls
       ELSE \E up \in BOOLEAN :
               /\ calls' = Called("connect", 1)
               /\ IF up THEN Goto("is_graph_built") ELSE Raise("ServiceUnavailable")
    /\ UNCHANGED << inputs, store, result, inferLocals, prompt, loopLocals >>

\* line 45
IsGraphBuilt ==
    /\ pc = "is_graph_built"
    /\ calls' = Called("store", 1)
    /\ IF is_graph_built(store) THEN Goto("get_schema_types") ELSE Goto("build_graph")
    /\ UNCHANGED << inputs, store, result, inferLocals, prompt, loopLocals >>

\* fault: the status of build_graph ignored
NeverFailed(status) == FALSE

\* line 47: if not status
BuildFailed(status) == ~status

\* lines 46-48: build_graph reads the document, issues its statements and
\* returns is_graph_built of the store it leaves (the graph object is taken
\* to stay usable after the with block of build_graph)
BuildGraph ==
    /\ pc = "build_graph"
    /\ IF ~doc.readable
       THEN /\ Raise("SchemaDocumentError")
            /\ calls' = Called("imports", 1)
            /\ store' = store
       ELSE /\ store' = BuildGraphStore(store, doc)
            /\ calls' = [calls EXCEPT !.imports = @ + 1,
                                      !.store = @ + Len(Statements(doc)) + 1]
            /\ IF BuildFailed(is_graph_built(store'))
               THEN Raise("RuntimeError")
               ELSE Goto("get_schema_types")
    /\ UNCHANGED << inputs, result, inferLocals, prompt, loopLocals >>

\* lines 53-54: get_schema_types, then get_llm checks its settings
GetSchemaTypes ==
    /\ pc = "get_schema_types"
    /\ schema_types' = Some(get_schema_types(store))
    /\ calls' = [calls EXCEPT !.types = @ + 1, !.store = @ + 1]
    /\ IF MissingVars(env, LlmVars) # {} THEN Raise("ValueError") ELSE Goto("infer_types")
    /\ UNCHANGED << inputs, store, result, inferred, src_type, dst_type, paths,
                    prompt, loopLocals >>

\* line 55
InferTypes ==
    /\ pc = "infer_types"
    /\ \E r \in InferResponses : inferred' = Some(r)
    /\ prompt' = Some(InferencePrompt(schema_types.val))
    /\ calls' = Called("infer", 1)
    /\ Goto("parse_types")
    /\ UNCHANGED << inputs, store, result, schema_types, src_type, dst_type, paths,
                    loopLocals >>

\* line 56
ParseTypes ==
    /\ pc = "parse_types"
    /\ LET p == ParsedTypes[inferred.val]
       IN  IF p.raised
           THEN Raise("JSONDecodeError") /\ UNCHANGED << src_type, dst_type >>
           ELSE /\ src_type' = p.src
                /\ dst_type' = p.dst
                /\ Goto("get_schema_paths")
    /\ UNCHANGED << inputs, store, result, schema_types, inferred, paths, prompt,
                    loopLocals, calls >>

\* fault: the empty path list not tested
PathsNeverEmpty(rows) == FALSE

\* line 62: if not paths
PathsEmpty(rows) == rows = << >>

NoPathResult(src, dst) ==
    [error |-> << "No valid schema path found between ", Interpolate(src),
                  " and ", Interpolate(dst) >>]

\* lines 61-63
GetSchemaPaths ==
    /\ pc = "get_schema_paths"
    /\ calls' = [calls EXCEPT !.paths = @ + 1, !.store = @ + 1]
    /\ \E o \in get_schema_paths(store, src_type, dst_type, max_hops) :
          IF o.raised
          THEN Raise("ClientError") /\ UNCHANGED << paths, result >>
          ELSE /\ paths' = Some(o.rows)
               /\ IF PathsEmpty(o.rows)
                  THEN /\ result' = Some(NoPathResult(src_type, dst_type))
                       /\ Goto("done")
                  ELSE /\ result' = result
                       /\ Goto("get_schema_snippet")
    /\ UNCHANGED << inputs, store, schema_types, inferred, src_type, dst_type,
                    prompt, loopLocals >>

\* lines 65-82
GetSchemaSnippet ==
    /\ pc = "get_schema_snippet"
    /\ prompt' = Some(GenerationPrompt(paths.val, get_schema_snippet(store, src_type)))
    /\ calls' = Called("store", 1)
    /\ Goto("generate")
    /\ UNCHANGED << inputs, store, result, inferLocals, loopLocals >>

\* line 83
Generate ==
    /\ pc = "generate"
    /\ \E r \in Responses : response' = Some(r)
    /\ calls' = Called("llm", 1)
    /\ Goto("extract")
    /\ UNCHANGED << inputs, store, result, inferLocals, prompt, query, variables,
                    errors, retries, invalids, allowed_fields_map, validated >>

\* fault: the extracted query not tested
NeverMissing(q) == FALSE

\* fault: only None taken for a missing query
QueryIsNone(q) == q.isNone

\* lines 89 and 126: if not query
QueryMissing(q) == ~Truthy(q)

\* lines 88-90
Extract ==
    /\ pc = "extract"
    /\ LET x == Extraction[response.val]
       IN  /\ query' = x.query
           /\ variables' = Some(x.variables)
           /\ calls' = Counted(x.query, 0)
           /\ IF QueryMissing(x.query)
              THEN /\ result' = Some([error |-> "Invalid LLM output", raw |-> response.val])
                   /\ Goto("done")
              ELSE /\ result' = result
                   /\ Goto("validate")
    /\ UNCHANGED << inputs, store, inferLocals, prompt, response, errors, retries,
                    invalids, allowed_fields_map, validated >>

\* lines 95-100
Validate ==
    /\ pc = "validate"
    /\ LET v == validate_query(query, schemaJson)
       IN  IF v.raised
           THEN /\ Raise("SchemaLoadError")
                /\ calls' = Called("validate", 1)
                /\ UNCHANGED << errors, validated >>
           ELSE /\ calls' = [calls EXCEPT !.validate = @ + 1, !.verdicts = @ + 1]
                /\ errors' = Some(v.errors)
                /\ validated' = Some([query |-> query.val, errors |-> v.errors])
                /\ Goto("loop")
    /\ retries' = 0
    /\ UNCHANGED << inputs, store, result, inferLocals, prompt, response, query,
                    variables, invalids, allowed_fields_map >>

\* fault: a loop that does not test the retry count
RetriesUnchecked(errs, n, limit) == errs # << >>

\* fault: a loop that does not test the errors
ErrorsUnchecked(errs, n, limit) == n < limit

\* line 101: while errors and retries < max_retries
LoopContinues(errs, n, limit) == errs # << >> /\ n < limit

\* fault: the remaining errors not returned
ErrorsDropped(q, v, errs) == [query |-> q, variables |-> v, errors |-> EmptyDict]

\* fault: the errors key left out of a result whose query validated
ResultWithoutErrors(q, v, errs) ==
    IF errs # << >>
    THEN [query |-> q, variables |-> v, errors |-> errs]
    ELSE [query |-> q, variables |-> v]

\* lines 135-141
FinalResult(q, v, errs) ==
    IF errs # << >>
    THEN [query |-> q, variables |-> v, errors |-> errs]
    ELSE [query |-> q, variables |-> v, errors |-> EmptyDict]

\* lines 101 and 135-141: the loop test, and the return when it fails
LoopTest ==
    /\ pc = "loop"
    /\ IF LoopContinues(errors.val, retries, max_retries)
       THEN /\ Goto("correction_prompt")
            /\ result' = result
       ELSE /\ result' = Some(FinalResult(query.val, variables.val, errors.val))
            /\ Goto("done")
    /\ UNCHANGED << inputs, store, inferLocals, prompt, loopLocals, calls >>

\* fault: an iteration that gives up when no error names a field
CorrectionSkippedWithoutIssues ==
    /\ pc = "correction_prompt"
    /\ LET invs == extract_invalids(errors.val)
           allowed == [t \in {invs[i].type : i \in DOMAIN invs} |-> AllowedFields(store, t)]
       IN  /\ invalids' = Some(invs)
           /\ allowed_fields_map' = Some(allowed)
           /\ calls' = Called("store", Len(invs))
           /\ IF invs = << >>
              THEN /\ result' = Some(FinalResult(query.val, variables.val, errors.val))
                   /\ Goto("done")
                   /\ prompt' = prompt
              ELSE /\ prompt' = Some(build_correction_prompt(query.val, invs, allowed))
                   /\ Goto("correct")
                   /\ result' = result
    /\ UNCHANGED << inputs, store, inferLocals, response, query, variables,
                    errors, retries, validated >>

\* lines 102-121
CorrectionPrompt ==
    /\ pc = "correction_prompt"
    /\ LET invs == extract_invalids(errors.val)
           allowed == [t \in {invs[i].type : i \in DOMAIN invs} |-> AllowedFields(store, t)]
       IN  /\ invalids' = Some(invs)
           /\ allowed_fields_map' = Some(allowed)
           /\ calls' = Called("store", Len(invs))
           /\ prompt' = Some(build_correction_prompt(query.val, invs, allowed))
    /\ Goto("correct")
    /\ UNCHANGED << inputs, store, result, inferLocals, response, query, variables,
                    errors, retries, validated >>

\* line 124
Correct ==
    /\ pc = "correct"
    /\ \E r \in Responses : response' = Some(r)
    /\ calls' = Called("llm", 1)
    /\ Goto("extract_correction")
    /\ UNCHANGED << inputs, store, result, inferLocals, prompt, query, variables,
                    errors, retries, invalids, allowed_fields_map, validated >>

\* lines 125-127
ExtractCorrection ==
    /\ pc = "extract_correction"
    /\ LET x == Extraction[response.val]
       IN  /\ query' = x.query
           /\ variables' = Some(x.variables)
           /\ calls' = Counted(x.query, 1)
           /\ IF QueryMissing(x.query)
              THEN /\ result' = Some([error |-> "Correction step failed", raw |-> response.val])
                   /\ Goto("done")
              ELSE /\ result' = result
                   /\ Goto("validate_correction")
    /\ UNCHANGED << inputs, store, inferLocals, prompt, response, errors, retries,
                    invalids, allowed_fields_map, validated >>

\* fault: the retry count left as it is
RetriesStuck(n) == n

\* line 130: retries += 1
RetriesAfter(n) == n + 1

\* lines 129-130
ValidateCorrection ==
    /\ pc = "validate_correction"
    /\ LET v == validate_query(query, schemaJson)
       IN  IF v.raised
           THEN /\ Raise("SchemaLoadError")
                /\ calls' = Called("validate", 1)
                /\ UNCHANGED << errors, validated, retries >>
           ELSE /\ calls' = [calls EXCEPT !.validate = @ + 1, !.verdicts = @ + 1,
                                          !.settled = @ + 1]
                /\ errors' = Some(v.errors)
                /\ validated' = Some([query |-> query.val, errors |-> v.errors])
                /\ retries' = RetriesAfter(retries)
                /\ Goto("loop")
    /\ UNCHANGED << inputs, store, result, inferLocals, prompt, response, query,
                    variables, invalids, allowed_fields_map >>

Next ==
    \/ CheckEnv
    \/ InitGraphDriver
    \/ IsGraphBuilt
    \/ BuildGraph
    \/ GetSchemaTypes
    \/ InferTypes
    \/ ParseTypes
    \/ GetSchemaPaths
    \/ GetSchemaSnippet
    \/ Generate
    \/ Extract
    \/ Validate
    \/ LoopTest
    \/ CorrectionPrompt
    \/ Correct
    \/ ExtractCorrection
    \/ ValidateCorrection

Spec == Init /\ [][Next]_vars

\* the request with every call it makes returning: a step that can be taken
\* is taken
SpecLive == Spec /\ WF_vars(Next)

-----------------------------------------------------------------------------
(* app.py: run_inference, the request followed by what the interface shows. *)

\* the text shown when result.get("errors") is falsy (in the source it
\* begins with a check mark)
NoValidationErrors == << << "No validation errors" >> >>

\* lines 25-29: result.get("query"), result.get("variables", {}), and the
\* joined errors, or the status text when result.get("errors") is falsy
run_inference(res) ==
    [query |-> DictGet(res, "query"),
     variables |-> IF "variables" \in DOMAIN res THEN res.variables ELSE EmptyDict,
     errors |-> IF "errors" \in DOMAIN res /\ DOMAIN res.errors # {}
                THEN res.errors
                ELSE NoValidationErrors]

\* lines 22-29
RunInference ==
    /\ pc = "done"
    /\ shown' = Some(run_inference(result.val))
    /\ Goto("shown")
    /\ UNCHANGED << env, doc, schemaJson, max_hops, max_retries, imp, importers,
                    store, result, inferLocals, prompt, loopLocals, calls >>

NextApp == Next \/ RunInference

SpecApp == Init /\ [][NextApp]_vars

-----------------------------------------------------------------------------
(* build_graph alone, one action per graph.query call, run again and again *)
(* on the same document.                                                   *)

InitImport ==
    /\ env = RequiredVars
    /\ doc \in {x \in Docs : x.readable}
    /\ store \in Stores
    /\ schemaJson = JsonOf(doc)
    /\ max_hops = 1
    /\ max_retries = 0
    /\ pc = "build_graph"
    /\ imp = [run |-> 1, i |-> 1, done |-> 0, snap |-> None]
    /\ importers = NoImporters
    /\ shown = None
    /\ LocalsInit

requestVars == << env, doc, schemaJson, max_hops, max_retries, pc, exc, result,
                  inferLocals, prompt, loopLocals, calls, importers, shown >>

\* lines 82-106: the next statement of the loops
ImportStatement ==
    /\ imp.run \in 1..(ImportRuns + 1)
    /\ imp.i <= Len(Statements(doc))
    /\ store' = ApplyStmt(store, Statements(doc)[imp.i])
    /\ imp' = [imp EXCEPT !.i = @ + 1]
    /\ UNCHANGED requestVars

\* lines 109-110: the run ends; snap keeps the store the first run left
ImportReturn ==
    /\ imp.run \in 1..(ImportRuns + 1)
    /\ imp.i > Len(Statements(doc))
    /\ imp' = [run |-> imp.run + 1, i |-> 1, done |-> imp.done + 1,
               snap |-> IF imp.snap.isNone THEN Some(store) ELSE imp.snap]
    /\ UNCHANGED << store, requestVars >>

NextImport == ImportStatement \/ ImportReturn

SpecImport == InitImport /\ [][NextImport]_vars

-----------------------------------------------------------------------------
(* Two requests on an empty store, each at main.py lines 45-48, their      *)
(* graph.query calls interleaved.  The code takes no lock and declares no  *)
(* uniqueness constraint, so a MERGE of a node is a match followed, when   *)
(* nothing matched, by a create, and another request's statement can run   *)
(* between the two; a MERGE of an edge between two matched nodes is taken  *)
(* under the locks of those nodes.                                         *)

Requests == {"r1", "r2"}

\* a request about to call is_graph_built
RequestStart == [at |-> "is_graph_built", i |-> 0, seen |-> EmptyStore, imported |-> FALSE]

\* between the first graph.query call of build_graph and its return
Importing(r) == r.at \in {"write", "status"} \/ (r.at = "match" /\ r.i > 1)

InitConcurrent ==
    /\ env = RequiredVars
    /\ doc \in {d \in Docs : d.readable /\ Statements(d) # << >>}
    /\ store = EmptyStore
    /\ schemaJson = JsonOf(doc)
    /\ max_hops = 1
    /\ max_retries = 0
    /\ pc = "is_graph_built"
    /\ imp = ImporterIdle
    /\ importers = [proc |-> [r \in Requests |-> RequestStart], overlapped |-> FALSE]
    /\ shown = None
    /\ LocalsInit

\* request p moves on; overlapped records that both were importing at once
Moves(p, r) ==
    LET procs == [importers.proc EXCEPT ![p] = r]
    IN  importers' = [proc |-> procs,
                      overlapped |-> importers.overlapped
                                        \/ \A q \in Requests : Importing(procs[q])]

\* the create half of a node MERGE whose match half saw the nodes of seen
CreateUnlessSeen(bag, seen, key) ==
    IF BagIn(key, seen) THEN bag ELSE bag (+) SetToBag({key})

\* one graph.query call of build_graph whose node matches saw the store seen
ApplyStmtAfterMatch(st, seen, stmt) ==
    CASE stmt.op = "type" ->
            [st EXCEPT !.Type = CreateUnlessSeen(@, seen.Type, stmt.tname)]
      [] stmt.op = "field" ->
            [st EXCEPT !.Field = CreateUnlessSeen(@, seen.Field, <<stmt.fname, stmt.tname>>),
                       !.Type = CreateUnlessSeen(@, seen.Type, stmt.tname),
                       !.HAS_FIELD = Merge(@, <<stmt.tname, stmt.fname>>)]
      [] stmt.op = "relation" ->
            [st EXCEPT !.Type = IF stmt.dst = stmt.tname
                                THEN CreateUnlessSeen(@, seen.Type, stmt.tname)
                                ELSE CreateUnlessSeen(
                                         CreateUnlessSeen(@, seen.Type, stmt.tname),
                                         seen.Type, stmt.dst),
                       !.HAS_RELATION = Merge(@, <<stmt.tname, stmt.dst, stmt.fname>>)]

\* main.py line 45
ConcurrentIsGraphBuilt(p) ==
    /\ importers.proc[p].at = "is_graph_built"
    /\ IF is_graph_built(store)
       THEN Moves(p, [importers.proc[p] EXCEPT !.at = "get_schema_types"])
       ELSE Moves(p, [importers.proc[p] EXCEPT !.at = "match", !.i = 1,
                                                !.imported = TRUE])
    /\ UNCHANGED << store, env, doc, schemaJson, max_hops, max_retries, pc, exc,
                    result, inferLocals, prompt, loopLocals, calls, imp, shown >>

\* neo4j_store.py lines 87-106: the match half of the next statement
MergeMatch(p) ==
    /\ importers.proc[p].at = "match"
    /\ Moves(p, [importers.proc[p] EXCEPT !.at = "write", !.seen = store])
    /\ UNCHANGED << store, env, doc, schemaJson, max_hops, max_retries, pc, exc,
                    result, inferLocals, prompt, loopLocals, calls, imp, shown >>

\* neo4j_store.py lines 87-106: the create half of the statement
MergeWrite(p) ==
    /\ importers.proc[p].at = "write"
    /\ LET r == importers.proc[p]
       IN  /\ store' = ApplyStmtAfterMatch(store, r.seen, Statements(doc)[r.i])
           /\ Moves(p, [r EXCEPT !.at = IF r.i = Len(Statements(doc))
                                         THEN "status" ELSE "match",
                                  !.i = r.i + 1,
                                  !.seen = EmptyStore])
    /\ UNCHANGED << env, doc, schemaJson, max_hops, max_retries, pc, exc,
                    result, inferLocals, prompt, loopLocals, calls, imp, shown >>

\* neo4j_store.py lines 109-110 and main.py line 47
ConcurrentReturn(p) ==
    /\ importers.proc[p].at = "status"
    /\ Moves(p, [importers.proc[p] EXCEPT !.at = "done"])
    /\ UNCHANGED << store, env, doc, schemaJson, max_hops, max_retries, pc, exc,
                    result, inferLocals, prompt, loopLocals, calls, imp, shown >>

\* main.py lines 53-65: a request that skipped the import reads the store
\* (type listing, path lookup, snippet); seen keeps the store it read
ConcurrentGetSchemaTypes(p) ==
    /\ importers.proc[p].at = "get_schema_types"
    /\ Moves(p, [importers.proc[p] EXCEPT !.at = "done", !.seen = store])
    /\ UNCHANGED << store, env, doc, schemaJson, max_hops, max_retries, pc, exc,
                    result, inferLocals, prompt, loopLocals, calls, imp, shown >>

NextConcurrent ==
    \E p \in Requests :
        \/ ConcurrentIsGraphBuilt(p)
        \/ ConcurrentGetSchemaTypes(p)
        \/ MergeMatch(p)
        \/ MergeWrite(p)
        \/ ConcurrentReturn(p)

SpecConcurrent == InitConcurrent /\ [][NextConcurrent]_vars

-----------------------------------------------------------------------------
(* extract_query_and_vars alone, applied to one model answer. *)

\* the pieces a model answer is made of
Segments ==
    { << "[fence]graphql", " ", "Workbook.name", " ", "[fence]" >>,
      << "[fence]graphql", " ", "[fence]" >>,
      << "[fence]json", "{", "first=5", "}", "[fence]" >>,
      << "[fence]json", "junk", "[fence]" >>,
      << "GraphQL Query:", " ", "User.sites", "\n\n", "Variables:" >>,
      << "Variables:", " " >>,
      << "{", "name=Jane", "}" >>,
      << "\n\n" >>,
      << "junk" >> }

RECURSIVE Flatten(_)
Flatten(ss) == IF ss = << >> THEN << >> ELSE Head(ss) \o Flatten(Tail(ss))

\* the answers of at most MaxSegments pieces
ExtractInputs ==
    {Flatten(ss) : ss \in UNION {[1..n -> Segments] : n \in 0..MaxSegments}}

InitExtract ==
    /\ env = RequiredVars
    /\ doc = DocChain
    /\ store = EmptyStore
    /\ schemaJson = JsonOf(DocChain)
    /\ max_hops = 1
    /\ max_retries = 0
    /\ pc = "extract_query_and_vars"
    /\ imp = ImporterIdle
    /\ importers = NoImporters
    /\ shown = None
    /\ exc = None
    /\ result = None
    /\ schema_types = None
    /\ inferred = None
    /\ src_type = None
    /\ dst_type = None
    /\ paths = None
    /\ prompt = None
    /\ response \in {Some(r) : r \in ExtractInputs}
    /\ query = None
    /\ variables = None
    /\ errors = None
    /\ retries = 0
    /\ invalids = None
    /\ allowed_fields_map = None
    /\ calls = NoCalls
    /\ validated = None

\* lines 152-176: one call of extract_query_and_vars
ExtractResponse ==
    /\ pc = "extract_query_and_vars"
    /\ LET x == extract_query_and_vars(response.val)
       IN  /\ query' = x.query
           /\ variables' = Some(x.variables)
    /\ Goto("extracted")
    /\ UNCHANGED << inputs, store, result, inferLocals, prompt, response, errors,
                    retries, invalids, allowed_fields_map, validated, calls >>

NextExtract == ExtractResponse

SpecExtract == InitExtract /\ [][NextExtract]_vars

-----------------------------------------------------------------------------
(* Properties of the request (specification Spec). *)

Returned == pc = "done" /\ ~result.isNone

Keys(d) == DOMAIN d

\* extract_query_and_vars of the last model response
Extracted == extract_query_and_vars(response.val)

\* C1: a request makes at most 1 + max_retries query-producing model calls
\* (the generation call and the correction calls), and at most one
\* type-inference call beside them.
C1_ModelCallBound ==
    /\ calls.llm <= 1 + max_retries
    /\ calls.infer <= 1

\* a request that used the generation call and every allowed correction call
C1_Witness ==
    /\ pc = "done"
    /\ max_retries = MaxRetriesBound
    /\ calls.llm = 1 + max_retries
    /\ calls.infer = 1

\* the loop was left with errors remaining and the retries used up
Exhausted ==
    /\ Returned
    /\ ~errors.isNone
    /\ errors.val # << >>
    /\ retries = max_retries

\* C2: when the correction loop ends with retries = max_retries and errors
\* remaining, the result has no error key, its query and variables are the
\* ones extracted from the last model response, and its errors are those of
\* the last validation run, which validated the returned query.
C2_ExhaustedReturnsLastRun ==
    Exhausted =>
        /\ Keys(result.val) = {"query", "variables", "errors"}
        /\ result.val.query = Extracted.query.val
        /\ result.val.variables = Extracted.variables
        /\ ~validated.isNone
        /\ validated.val.query = result.val.query
        /\ validated.val.errors = result.val.errors
        /\ result.val.errors = validate_query(Some(result.val.query), schemaJson).errors
        /\ result.val.errors # << >>

\* retries exhausted after at least one correction, errors remaining
C2_Witness ==
    /\ Exhausted
    /\ max_retries >= 1
    /\ calls.llm = 1 + max_retries

\* C3: when the path lookup returns no row, the request returns the
\* no-path error naming the two inferred types, and has made no model call
\* but the one type-inference call, and no validation.
C3_NoPathStops ==
    (~paths.isNone /\ paths.val = << >>) =>
        /\ pc = "done"
        /\ result = Some([error |-> << "No valid schema path found between ",
                                       Interpolate(src_type), " and ",
                                       Interpolate(dst_type) >>])
        /\ calls.infer = 1
        /\ calls.llm = 0
        /\ calls.validate = 0

\* two types of the store with no relation path within max_hops
C3_Witness ==
    /\ pc = "done"
    /\ ~paths.isNone /\ paths.val = << >>
    /\ src_type = Some("Workbook")
    /\ dst_type = Some("Site")
    /\ max_hops = 1
    /\ {"Workbook", "Site"} \subseteq get_schema_types(store)
    /\ \E k \in 2..3 : PathsOfLength(store, "Workbook", "Site", k) # {}

\* C4: the entry point never raises: every request that ends, ends with a
\* returned result.
C4_NeverRaises == pc # "raised" /\ exc = None

\* C5: when a validation run returns no error the next step returns the
\* result, with the query and variables of the latest extraction and empty
\* errors, with no further model call, store query or validation; and
\* nothing follows the return.
C5_EmptyErrorsReturnAtOnce ==
    [][ /\ pc # "done"
        /\ (pc = "loop" /\ errors.val = << >>) =>
              /\ pc' = "done"
              /\ calls' = calls
              /\ Keys(result'.val) = {"query", "variables", "errors"}
              /\ result'.val.query = Extracted.query.val
              /\ result'.val.variables = Extracted.variables
              /\ result'.val.errors = EmptyDict ]_vars

\* a success after at least one correction
C5_Witness ==
    /\ Returned
    /\ "errors" \in Keys(result.val)
    /\ result.val.errors = EmptyDict
    /\ retries >= 1
    /\ calls.validate = 1 + retries

\* C6: when the extraction of a generation or correction response yields a
\* null query, the next step returns the error result of that phase with the
\* text of that very response as raw, without a validation or a further
\* model call; and nothing follows the return.
C6_NullQueryReturnsRaw ==
    [][ /\ pc # "done"
        /\ (pc \in {"extract", "extract_correction"} /\ Extracted.query = None) =>
              /\ pc' = "done"
              /\ calls' = calls
              /\ validated' = validated
              /\ result' = Some([error |-> IF pc = "extract"
                                           THEN "Invalid LLM output"
                                           ELSE "Correction step failed",
                                 raw |-> response.val]) ]_vars

\* a null query in a correction iteration
C6_Witness ==
    /\ Returned
    /\ "raw" \in Keys(result.val)
    /\ result.val.error = "Correction step failed"
    /\ result.val.raw = response.val
    /\ query = None
    /\ calls.validate = 1 + retries

\* the type-inference answer holds no JSON object, or a malformed one
TypesUnparsable(text) ==
    \/ BraceSpan(text).isNone
    \/ ~JsonLoads(BraceSpan(text).val).ok

\* C7: a request whose type-inference answer is unparsable never runs the
\* path lookup and never makes a generation call, and a result it returns
\* is an error result.
C7_UnparsableTypesStop ==
    (~inferred.isNone /\ TypesUnparsable(inferred.val)) =>
        /\ calls.paths = 0
        /\ calls.llm = 0
        /\ pc = "done" => "error" \in Keys(result.val)

\* C8: the import runs exactly when the existence check finds no node, and
\* at most once; when it leaves the store empty the request ends there with
\* the build error, before any type listing, type inference or model call;
\* nothing follows a raised error.
C8_ImportIffEmpty ==
    [][ /\ pc # "raised"
        /\ pc = "is_graph_built" =>
              (pc' = "build_graph" <=> NodeCount(store) = 0)
        /\ calls'.imports # calls.imports =>
              /\ pc = "build_graph"
              /\ NodeCount(store) = 0
              /\ calls.imports = 0
              /\ calls'.imports = 1
        /\ store' # store => calls'.imports # calls.imports
        /\ (pc = "build_graph" /\ NodeCount(store') = 0) =>
              /\ pc' = "raised"
              /\ doc.readable => exc' = Some("RuntimeError")
              /\ calls'.types = 0
              /\ calls'.infer = 0
              /\ calls'.llm = 0 ]_vars

\* the import ran on a readable document and left the store empty
C8_Witness ==
    /\ pc = "raised"
    /\ exc = Some("RuntimeError")
    /\ calls.imports = 1
    /\ doc.readable
    /\ NodeCount(store) = 0

\* C9: with a required setting absent the request does nothing but raise the
\* configuration error: no connection to the store, no store query, no
\* import, no model call.
C9_MissingSettingStopsFirst ==
    (\E var \in Neo4jVars \cup LlmVars : var \notin env) =>
        /\ pc \in {"check_env", "raised"}
        /\ pc = "raised" => exc = Some("ValueError")
        /\ calls = NoCalls
        /\ result = None

\* the request raised for one missing setting
C9_Witness ==
    /\ pc = "raised"
    /\ exc = Some("ValueError")
    /\ env = (Neo4jVars \cup LlmVars) \ {"LLM_MODEL"}

-----------------------------------------------------------------------------
(* Properties of the import (specification SpecImport). *)

\* C10: once build_graph has run twice on a document, the store is the one
\* its first run left, and no Type node, Field node, HAS_FIELD edge or
\* HAS_RELATION edge has a second copy.
C10_ImportIdempotent ==
    /\ imp.done >= 1 => NoDuplicates(store)
    /\ imp.done >= 2 => store = imp.snap.val

\* a second run that issued statements on a store the first run filled
C10_Witness ==
    /\ imp.done = 2
    /\ Len(Statements(doc)) > 0
    /\ BagCardinality(store.HAS_RELATION) >= 2

\* C13: every path get_schema_paths returned has one node more than it has
\* fields, starts at the source type and ends at the target type, has at
\* most max_hops fields, and each consecutive pair of its nodes is joined in
\* the store by a HAS_RELATION edge labelled with the field at that place.
C13_PathsWellFormed ==
    ~paths.isNone =>
        \A i \in DOMAIN paths.val :
            LET p == paths.val[i]
            IN  /\ Len(p.nodes) = Len(p.fields) + 1
                /\ p.nodes[1] = Interpolate(src_type)
                /\ p.nodes[Len(p.nodes)] = Interpolate(dst_type)
                /\ Len(p.fields) <= max_hops
                /\ \A j \in DOMAIN p.fields :
                       BagIn(<< p.nodes[j], p.nodes[j + 1], p.fields[j] >>,
                             store.HAS_RELATION)

\* a path of two relations was returned
C13_Witness ==
    /\ ~paths.isNone
    /\ paths.val # << >>
    /\ Len(paths.val[1].fields) = 2
    /\ max_hops >= 2

\* C12: validate_query passes no exception to its caller: every call of it
\* returns a list, a failure to load schema.json or to build the schema from
\* it included, and the list is empty only for a query that parses and
\* selects declared fields only.
C12_ValidateNeverThrows ==
    /\ calls.verdicts = calls.validate
    /\ ~validated.isNone =>
          (validated.val.errors = << >> =>
              /\ validated.val.query # << >>
              /\ \A i \in DOMAIN validated.val.query :
                    /\ validated.val.query[i] \in SelectionToks
                    /\ LET x == SelectionOf(validated.val.query[i])
                       IN  <<x.type, x.field>> \in schemaJson.fields /\ ~x.badArg)

\* no message of a non-empty error list names a field that cannot be queried
NoFieldMessage(errs) ==
    /\ errs # << >>
    /\ \A i \in DOMAIN errs :
          \A j \in DOMAIN errs[i] : errs[i][j] # "Cannot query field '"

\* C16: when the error list is non-empty and none of its messages names a
\* field that cannot be queried, extract_invalids yields no issue and the
\* correction iteration goes on all the same: the correction prompt is
\* built with no feedback block, the model is called with it, and the
\* validation of its answer consumes one retry.
C16_UnmatchedErrorsStillRetry ==
    [][ /\ (pc = "correction_prompt" /\ NoFieldMessage(errors.val)) =>
              /\ pc' = "correct"
              /\ invalids' = Some(<< >>)
              /\ prompt'.val.kind = "correction"
              /\ DOMAIN prompt'.val.blocks = {}
        /\ (pc = "correct" /\ NoFieldMessage(errors.val)) =>
              /\ pc' = "extract_correction"
              /\ calls'.llm = calls.llm + 1
              /\ prompt.val.kind = "correction"
              /\ DOMAIN prompt.val.blocks = {}
        /\ (pc = "validate_correction" /\ NoFieldMessage(errors.val)
                                       /\ pc' = "loop") =>
              retries' = retries + 1 ]_vars

\* an iteration without any issue ran to its end and consumed a retry
C16_Witness ==
    /\ pc = "loop"
    /\ retries = 1
    /\ calls.llm = 2
    /\ invalids = Some(<< >>)
    /\ prompt.val.kind = "correction"
    /\ DOMAIN prompt.val.blocks = {}

\* C17: in every correction iteration the allowed-fields map has an entry
\* for the type of every issue, the entry holds exactly the names of the
\* fields the store declares on that type (none for a type the store does
\* not know), and the correction prompt carries, for each issue in order,
\* the field that is not allowed, its type and that type's allowed fields.
C17_AllowedFieldsComplete ==
    ~invalids.isNone =>
        /\ prompt.val.kind = "correction"
        /\ DOMAIN prompt.val.blocks = DOMAIN invalids.val
        /\ \A i \in DOMAIN invalids.val :
              LET t == invalids.val[i].type
                  declared == {e \in BagToSet(store.HAS_FIELD) : e[1] = t}
              IN  /\ t \in DOMAIN allowed_fields_map.val
                  /\ \A e \in declared : e[2] \in allowed_fields_map.val[t]
                  /\ \A f \in allowed_fields_map.val[t] : <<t, f>> \in declared
                  /\ ~BagIn(t, store.Type) => allowed_fields_map.val[t] = {}
                  /\ prompt.val.blocks[i].field = invalids.val[i].field
                  /\ prompt.val.blocks[i].type = t
                  /\ prompt.val.blocks[i].allowed = allowed_fields_map.val[t]

\* an iteration with two issues, one on a type the store does not know and
\* one on a type with declared fields
C17_Witness ==
    /\ ~invalids.isNone
    /\ \E i, j \in DOMAIN invalids.val :
          /\ ~BagIn(invalids.val[i].type, store.Type)
          /\ allowed_fields_map.val[invalids.val[i].type] = {}
          /\ allowed_fields_map.val[invalids.val[j].type] # {}

\* C18: a request that finds the store non-empty never enters the import,
\* and no step other than the import writes to the store: the store stays
\* what the existence check saw until the request ends.
C18_NonEmptyStoreUntouched ==
    [][ /\ NodeCount(store) > 0 => (store' = store /\ pc' # "build_graph")
        /\ pc # "build_graph" => store' = store ]_vars

\* a request on a filled store that read it in every phase, corrections
\* included, and returned
C18_Witness ==
    /\ Returned
    /\ NodeCount(store) > 0
    /\ calls.imports = 0
    /\ calls.paths = 1
    /\ ~invalids.isNone
    /\ invalids.val # << >>

\* C19, as stated: in every reachable state retries lies in 0..max_retries
\* and equals the number of correction responses whose extraction gave a
\* query other than null, and the validator has been run exactly once per
\* extraction that gave a query other than null, and never before the
\* generation call.
C19_RetriesCountNonNullExtractions ==
    /\ retries \in 0..max_retries
    /\ retries = calls.corrected
    /\ calls.validate = calls.extracted
    /\ calls.validate > 0 => calls.llm > 0

\* C19, amended: in every reachable state retries lies in 0..max_retries
\* and equals the number of correction responses on whose query the
\* validator has returned a verdict; the validator has been called exactly
\* once per extraction that gave a non-empty query (never on a null or an
\* empty one, never twice, never before the generation call), the call for
\* the latest extraction being still ahead at the two validation steps.
C19_RetriesCountVerdicts ==
    /\ retries \in 0..max_retries
    /\ retries = calls.settled
    /\ calls.validate = calls.usable
                           - (IF pc \in {"validate", "validate_correction"} THEN 1 ELSE 0)
    /\ calls.validate > 0 => calls.llm > 0
    /\ calls.validate <= calls.llm

\* a request that validated the generated query and one corrected query,
\* and whose second correction gave an empty query, which the validator
\* never saw
C19_Witness ==
    /\ Returned
    /\ retries = 1
    /\ calls.llm = 3
    /\ calls.extracted = 3
    /\ calls.usable = 2
    /\ calls.validate = 2

Terminal == pc \in {"done", "raised"}

\* the steps before the loop, in the order of main.py
StepsBeforeLoop ==
    << "check_env", "init_graph_driver", "is_graph_built", "build_graph",
       "get_schema_types", "infer_types", "parse_types", "get_schema_paths",
       "get_schema_snippet", "generate", "extract", "validate" >>

\* the steps of one correction iteration, from the loop test on
StepsOfIteration ==
    << "loop", "correction_prompt", "correct", "extract_correction",
       "validate_correction" >>

Index(seq, x) == CHOOSE i \in DOMAIN seq : seq[i] = x

\* the number of steps a request has at most ahead of it
Rank ==
    LET n == Len(StepsOfIteration)
        ahead == n * (max_retries - retries)
    IN  IF Terminal THEN 0
        ELSE IF \E i \in DOMAIN StepsOfIteration : StepsOfIteration[i] = pc
            THEN ahead + n + 1 - Index(StepsOfIteration, pc)
        ELSE n * max_retries + n + 1
                + Len(StepsBeforeLoop) - Index(StepsBeforeLoop, pc)

\* C20: every request comes to an end, a returned result or a raised error,
\* for every max_retries from 0 on and whatever the model answers: each step
\* lowers the number of steps still ahead, which never falls below zero, and
\* a request whose calls all return reaches a terminal state.
C20_EveryRequestEnds ==
    /\ <>Terminal
    /\ [][Rank' < Rank /\ Rank' >= 0]_vars

\* a request that ended with errors left after all its retries
C20_Witness ==
    /\ Terminal
    /\ Exhausted
    /\ max_retries = MaxRetriesBound
    /\ retries = max_retries

-----------------------------------------------------------------------------
(* Properties of extract_query_and_vars (specification SpecExtract). *)

\* the places of the first query fence of a text and of the fence that
\* closes it (0: there is none)
QueryFenceOpen(text) ==
    LET I == {i \in DOMAIN text : text[i] = "[fence]graphql"
                                    /\ \E j \in DOMAIN text : j > i /\ text[j] \in Backticks}
    IN  IF I = {} THEN 0 ELSE Min(I)

FenceClose(text, i) == Min({j \in DOMAIN text : j > i /\ text[j] \in Backticks})

\* the places of the first JSON fence after place i that has a closing fence
JsonFenceOpen(text, i) ==
    LET K == {k \in DOMAIN text : k > i /\ text[k] = "[fence]json"
                                    /\ \E l \in DOMAIN text : l > k /\ text[l] \in Backticks}
    IN  IF K = {} THEN 0 ELSE Min(K)

\* a query fence, closed, followed by a JSON fence, closed, that holds JSON
TwoFence(text) ==
    /\ QueryFenceOpen(text) > 0
    /\ text[FenceClose(text, QueryFenceOpen(text))] = "[fence]"
    /\ JsonFenceOpen(text, FenceClose(text, QueryFenceOpen(text))) > 0
    /\ LET k == JsonFenceOpen(text, FenceClose(text, QueryFenceOpen(text)))
       IN  JsonLoads(SubSeq(text, k + 1, FenceClose(text, k) - 1)).ok

\* C14: for an answer in the two-fence format, a fenced query block and a
\* fenced JSON variables block, extract_query_and_vars returns the trimmed
\* contents of the query fence as the query and the parsed JSON of the
\* variables fence as the variables.
C14_TwoFenceRoundTrip ==
    (pc = "extracted" /\ TwoFence(response.val)) =>
        LET i == QueryFenceOpen(response.val)
            j == FenceClose(response.val, i)
            k == JsonFenceOpen(response.val, j)
            l == FenceClose(response.val, k)
        IN  /\ query = Some(Strip(SubSeq(response.val, i + 1, j - 1)))
            /\ variables = Some(JsonLoads(SubSeq(response.val, k + 1, l - 1)).val)

\* the places where a "GraphQL Query:" label stands that a blank line and a
\* "Variables:" label follow, and the places of those blank lines
LabelEnds(text, i) ==
    {j \in DOMAIN text : /\ j > i
                         /\ text[j] = "\n\n"
                         /\ j + 1 \in DOMAIN text
                         /\ text[j + 1] = "Variables:"}

LabelStarts(text) ==
    {i \in DOMAIN text : text[i] = "GraphQL Query:" /\ LabelEnds(text, i) # {}}

\* some span after a "Variables:" label is a JSON object
VariablesReadable(text) ==
    \E i \in DOMAIN text :
        /\ text[i] = "Variables:"
        /\ \E a, b \in DOMAIN text :
              i < a /\ a <= b /\ JsonLoads(SubSeq(text, a, b)).ok

\* C15: extract_query_and_vars raises nothing and always returns a mapping;
\* without a fenced query block and without a labeled section the query is
\* null; with a fenced query block the query is the trimmed contents of
\* that block, a labeled section or not; otherwise it is the trimmed
\* labeled section; and when no JSON object can be read after a
\* "Variables:" label the mapping is empty, the query being what the rules
\* before make it.
C15_ExtractionNeverThrows ==
    pc = "extracted" =>
        LET text == response.val
            i == QueryFenceOpen(text)
        IN  /\ exc = None
            /\ ~variables.isNone
            /\ (i = 0 /\ LabelStarts(text) = {}) => query = None
            /\ i > 0 =>
                  query = Some(Strip(SubSeq(text, i + 1, FenceClose(text, i) - 1)))
            /\ (i = 0 /\ LabelStarts(text) # {}) =>
                  LET a == Min(LabelStarts(text))
                  IN  query = Some(Strip(SubSeq(text, a + 1, Min(LabelEnds(text, a)) - 1)))
            /\ ~VariablesReadable(text) => variables.val = EmptyDict

\* an answer with a labeled section, a fenced query block and a variables
\* fence that holds no JSON: the fenced query, and no variables
C15_Witness ==
    /\ pc = "extracted"
    /\ LabelStarts(response.val) # {}
    /\ QueryFenceOpen(response.val) > 0
    /\ \E k \in DOMAIN response.val : response.val[k] = "[fence]json"
    /\ ~VariablesReadable(response.val)
    /\ query = Some(<< "Workbook.name" >>)
    /\ variables = Some(EmptyDict)

-----------------------------------------------------------------------------
(* Properties of concurrent first use (specification SpecConcurrent). *)

\* C11: when two requests both found the store empty and both ran the
\* import of the same document, then either the two imports never ran at
\* the same time, or the store they leave is the store of a single import,
\* without a duplicate node or edge.
C11_ConcurrentImportConverges ==
    (\A p \in DOMAIN importers.proc :
        importers.proc[p].at = "done" /\ importers.proc[p].imported) =>
            \/ ~importers.overlapped
            \/ /\ store = BuildGraphStore(EmptyStore, doc)
               /\ NoDuplicates(store)

\* st holds every node and edge that the import of document d creates
HoldsDocument(st, d) ==
    LET full == BuildGraphStore(EmptyStore, d)
    IN  /\ \A k \in BagToSet(full.Type) : BagIn(k, st.Type)
        /\ \A k \in BagToSet(full.Field) : BagIn(k, st.Field)
        /\ \A k \in BagToSet(full.HAS_FIELD) : BagIn(k, st.HAS_FIELD)
        /\ \A k \in BagToSet(full.HAS_RELATION) : BagIn(k, st.HAS_RELATION)

\* C21: a request for which is_graph_built returned true, and which so went
\* on without importing, reads a store that holds every type, field and
\* relation edge of the schema document, also while another request is
\* still running the import.
C21_NoReadOfPartialImport ==
    \A p \in DOMAIN importers.proc :
        (importers.proc[p].at = "done" /\ ~importers.proc[p].imported) =>
            HoldsDocument(importers.proc[p].seen, doc)

-----------------------------------------------------------------------------
(* Properties of the interface wrapper (specification SpecApp). *)

\* C22: run_inference shows the status "No validation errors" only for a
\* result that carries a query whose last validation run gave an empty
\* error list, and never for a result that carries an error.
C22_StatusOnlyForValidQuery ==
    (pc = "shown" /\ shown.val.errors = NoValidationErrors) =>
        /\ "error" \notin Keys(result.val)
        /\ "query" \in Keys(result.val)
        /\ ~validated.isNone
        /\ validated.val.errors = << >>
        /\ validated.val.query = result.val.query

-----------------------------------------------------------------------------
(* The shape of every returned result (specification Spec). *)

\* C23: every returned result has exactly one of the keys error and query;
\* a result with error has no query, variables or errors, and raw appears
\* only together with error; a result with query has a non-null query
\* together with variables and errors.
C23_ResultShape ==
    Returned =>
        /\ ("error" \in Keys(result.val)) # ("query" \in Keys(result.val))
        /\ "error" \in Keys(result.val) =>
              Keys(result.val) \in {{"error"}, {"error", "raw"}}
        /\ "raw" \in Keys(result.val) => "error" \in Keys(result.val)
        /\ "query" \in Keys(result.val) =>
              /\ Keys(result.val) = {"query", "variables", "errors"}
              /\ ~query.isNone
              /\ ~QueryMissing(query)
              /\ result.val.query = query.val
              /\ result.val.variables = variables.val
              /\ result.val.errors = errors.val

\* a query returned with no validation error left, after a correction
C23_Witness ==
    /\ Returned
    /\ Keys(result.val) = {"query", "variables", "errors"}
    /\ result.val.errors = EmptyDict
    /\ retries = 1

====
